---- MODULE Spec2Model ----
(***************************************************************************)
(* The streaming speech-translation pipeline of RealTimeTranslator: four   *)
(* daemon worker threads (capture, recognize, translate, speak) connected  *)
(* by three queues, started and stopped by the main thread.                *)
(*                                                                         *)
(* Two classes implement it: RealtimeTranslator                            *)
(* (src/realtime_translator.py) and WhisperRealtimeTranslator              *)
(* (src/advanced_whisper_translator.py).  start, stop and the loops of     *)
(* the last three workers are the same code in both; capture, recognition  *)
(* and translation differ.                                                 *)
(*                                                                         *)
(*   Spec       a short run of either class, in which engine calls may     *)
(*              fail                                                       *)
(*   SpecSlow   a long run of RealtimeTranslator with a slow recognizer,   *)
(*              which fills audio_queue                                    *)
(*   SpecFlood  a long run of RealtimeTranslator with a slow translator,   *)
(*              which piles up text_queue                                  *)
(*   SpecLock   SpecSlow with the loop body of the capture thread in two    *)
(*              steps, self.lock held between them                         *)
(*   SpecDelay  a run of RealtimeTranslator in which the sound device       *)
(*              delivers more frames between two ticks of the capture loop *)
(*              than make up chunk_duration seconds                        *)
(*   SpecGui    the start and stop buttons and the listening threads of    *)
(*              TranslatorGUI (src/gui_translator.py)                      *)
(*                                                                         *)
(* In RealtimeTranslator a chunk is identified by the chunk_number the     *)
(* capture loop gave it; the text recognised from it, its translation and  *)
(* its utterance are written as the same number, so that order and loss    *)
(* can be stated.  In WhisperRealtimeTranslator a chunk is its samples, a  *)
(* text is what Whisper heard and a translation is what the engine         *)
(* answered, so that the cache can be stated.                              *)
(***************************************************************************)
EXTENDS Integers, Sequences, FiniteSets, TLC

VARIABLES
    impl,               \* which class the process runs
    limits,             \* the environment budget of this run
    listen_pc,          \* TranslatorGUI: position of each listen_and_translate thread
    lock,               \* RealtimeTranslator: the thread that holds self.lock, or "free"
    temp_files,         \* number of .mp3 files of speak_translation in the temp directory
    sup,                \* position of the main thread
    is_running,         \* self.is_running
    pc,                 \* position of each worker thread
    hand,               \* the item a worker has dequeued and is processing
    audio_queue,        \* self.audio_queue
    text_queue,         \* self.text_queue
    translation_queue,  \* self.translation_queue
    audio_frames,       \* RealtimeTranslator: number of frames in self.audio_frames
    chunk_number,       \* RealtimeTranslator: chunk_number of continuous_audio_capture
    audio_buffer,       \* WhisperRealtimeTranslator: self.audio_buffer
    translation_cache,  \* WhisperRealtimeTranslator: self.translation_cache
    dropped,            \* history: chunks skipped on queue.Full
    blanks,             \* history: chunks for which the recognizer returned a text
                        \*          of whitespace only
    unchunked,          \* history: frames audio_callback has appended that the
                        \*          capture loop has not joined into a chunk
    faults,             \* history: engine calls that raised or returned no text
    put_text,           \* history: chunks whose text was put on text_queue
    put_trans,          \* history: chunks whose translation was put on translation_queue
    spoken,             \* history: items handed to playback
    late_puts,          \* history: enqueues a worker made while the flag was false
    drain,              \* history: translations queued when stop() cleared the flag,
                        \*          and how many of them the speaker has not dequeued
    restop,             \* history: the last call of stop() found the flag already false
    audio_chunk,        \* WhisperRealtimeTranslator: audio_chunk of record_audio_chunk,
                        \*          <<>> outside a loop body
    fed,                \* history: samples the sound device has delivered
    engine_calls,       \* history: translation engine calls made, per source text
    engine_result,      \* history: what the translation engine returned last, "" before
    engine_answers,     \* history: translation engine calls that returned, per text
    served,             \* history: <<text, translation>> pairs the translator has put
    reported            \* history: the result of the last len(self.translation_cache)
                        \*          of start() or stop(), 0 before

ctl == <<impl, limits, listen_pc, lock, temp_files>>
queues == <<audio_queue, text_queue, translation_queue>>
rt_only == <<audio_frames, chunk_number, dropped, unchunked, blanks>>
w_only == <<audio_buffer, translation_cache, fed, engine_calls, engine_answers, served,
           engine_result, reported, audio_chunk>>
hist == <<faults, put_text, put_trans, spoken, late_puts, drain, restop>>

vars == <<ctl, sup, is_running, pc, hand, queues, rt_only, w_only, hist>>

----------------------------------------------------------------------------
(* Bounds of the model *)

MaxChunks == 2          \* chunks captured in a run of Spec
MaxFaults == 1          \* engine faults in a run of Spec
MaxFrames == 1          \* callback frames buffered between two capture ticks
MaxSamples == 2         \* samples the sound device delivers in a run of Spec
BufferMaxlen == 2       \* maxlen of audio_buffer, int(sample_rate * chunk_duration), scaled down
SlowChunks == 13        \* chunks captured in a run of SpecSlow and SpecFlood
SlowCalls == 1          \* calls the slow engine answers before one hangs
DelayChunks == 3        \* chunks' worth of frames delivered in a run of SpecDelay
MaxListeners == 2       \* listening threads TranslatorGUI starts in a run of SpecGui

(* Program constants *)

AUDIO_QUEUE_MAXSIZE == 10   \* queue.Queue(maxsize=10)
MAX_QUEUE_SIZE == 10        \* AdvancedConfig.MAX_QUEUE_SIZE
SILENCE_THRESHOLD == 1      \* 0.01; amplitudes are in units of 0.01 of full scale
FRAMES_PER_CHUNK == 1       \* int(self.RATE / self.CHUNK * self.chunk_duration), in
                            \* units of that many frames

Workers == {"capture", "recognize", "translate", "speak"}
Upstream == {"capture", "recognize", "translate"}
NoItem == 0

Levels == {"below", "at", "above"}   \* peak of a RealtimeTranslator chunk against 0.01
Samples == {0, 1, -2}                \* silent, at the threshold, loud
Blank == " "
RawResults == {<<Blank, "hello">>, <<"bye", Blank>>, <<Blank>>, <<>>}   \* result['text']
Texts == {<<"hello">>, <<"bye">>}    \* the texts left after strip()
Answers == {"hola", "adios"}         \* what the translation engine may answer

----------------------------------------------------------------------------
(* queue.Queue *)

\* Queue.full(): 0 < maxsize <= qsize
Full(q, maxsize) == maxsize > 0 /\ Len(q) >= maxsize

\* a faulty _put, which inserts at the front
Put_front(q, x) == <<x>> \o q

\* Queue._put(): append
Put(q, x) == Append(q, x)

\* Queue._get(): popleft
Front(q) == Head(q)

\* a faulty popleft, which discards the item behind the one it returns
Rest_losing(q) == IF Len(q) > 1 THEN Tail(Tail(q)) ELSE Tail(q)

Rest(q) == Tail(q)

Range(s) == {s[i] : i \in 1..Len(s)}

\* a daemon thread runs only while the process does
Alive == sup # "exited"

\* an enqueue made while the flag is false is counted
Late(w) == IF is_running THEN late_puts ELSE [late_puts EXCEPT ![w] = @ + 1]

----------------------------------------------------------------------------
(* __init__ *)

InitWith(i, l) ==
    /\ impl = i
    /\ limits = l
    /\ listen_pc = [n \in 1..MaxListeners |-> "none"]
    /\ lock = "free"
    /\ temp_files = 0
    /\ sup = "idle"
    /\ is_running = FALSE
    /\ pc = [w \in Workers |-> "none"]
    /\ hand = [w \in Workers |-> NoItem]
    /\ audio_queue = <<>>
    /\ text_queue = <<>>
    /\ translation_queue = <<>>
    /\ audio_frames = 0
    /\ chunk_number = 0
    /\ audio_buffer = <<>>
    /\ translation_cache = [t \in {} |-> ""]
    /\ dropped = {}
    /\ unchunked = 0
    /\ blanks = {}
    /\ faults = 0
    /\ put_text = <<>>
    /\ put_trans = <<>>
    /\ spoken = <<>>
    /\ late_puts = [w \in Workers |-> 0]
    /\ drain = [queued |-> 0, left |-> 0]
    /\ restop = FALSE
    /\ fed = 0
    /\ audio_chunk = <<>>
    /\ engine_calls = [t \in Texts |-> 0]
    /\ engine_answers = [t \in Texts |-> 0]
    /\ engine_result = ""
    /\ served = {}
    /\ reported = 0

\* a short run of either class in which engine calls may fail
Init ==
    \E i \in {"realtime", "whisper"} :
        InitWith(i, [chunks |-> MaxChunks, faults |-> MaxFaults, frames |-> MaxFrames,
                     texts |-> MaxChunks, translations |-> MaxChunks])

\* a long run in which one engine is slow: it answers SlowCalls calls and then one
\* call hangs (there is no per-call timeout), so the queue before it fills up.
\* In SpecSlow the slow engine is the recognizer, in SpecFlood the translator.
InitSlow ==
    InitWith("realtime", [chunks |-> SlowChunks, faults |-> 0, frames |-> MaxFrames,
                          texts |-> SlowCalls, translations |-> SlowChunks])

InitFlood ==
    InitWith("realtime", [chunks |-> SlowChunks, faults |-> 0, frames |-> MaxFrames,
                          texts |-> SlowChunks, translations |-> SlowCalls])

\* a run of RealtimeTranslator in which more callbacks arrive between two ticks of
\* the capture loop than int(self.RATE / self.CHUNK * self.chunk_duration)
InitDelay ==
    InitWith("realtime", [chunks |-> DelayChunks, faults |-> 0,
                          frames |-> FRAMES_PER_CHUNK + 1,
                          texts |-> DelayChunks, translations |-> DelayChunks])

----------------------------------------------------------------------------
(* start / stop, and main() returning *)

\* a faulty start(), which starts the threads without setting the flag
start_unflagged ==
    /\ sup \in {"idle", "stopped"}
    /\ \A w \in Workers : pc[w] = "none"
    /\ pc' = [w \in Workers |-> IF w = "capture" THEN "open" ELSE "wait"]
    /\ sup' = "running"
    /\ UNCHANGED <<ctl, is_running, hand, queues, rt_only, w_only, hist>>

\* a faulty start(), which starts the threads with the flag cleared
start_clearing ==
    /\ sup \in {"idle", "stopped"}
    /\ \A w \in Workers : pc[w] = "none"
    /\ is_running' = FALSE
    /\ pc' = [w \in Workers |-> IF w = "capture" THEN "open" ELSE "wait"]
    /\ sup' = "running"
    /\ UNCHANGED <<ctl, hand, queues, rt_only, w_only, hist>>

\* self.is_running = True; the four daemon threads are created and started
start ==
    /\ sup \in {"idle", "stopped"}
    /\ \A w \in Workers : pc[w] = "none"
    /\ is_running' = TRUE
    /\ pc' = [w \in Workers |-> IF w = "capture" THEN "open" ELSE "wait"]
    /\ sup' = "running"
    /\ UNCHANGED <<ctl, hand, queues, rt_only, w_only, hist>>

\* a faulty stop(), which flips the flag
stop_toggle ==
    /\ sup \in {"idle", "running", "stopped"}
    /\ is_running' = ~is_running
    /\ sup' = "stopping"
    /\ drain' = IF is_running
                THEN [queued |-> Len(translation_queue), left |-> Len(translation_queue)]
                ELSE drain
    /\ restop' = ~is_running
    /\ UNCHANGED <<ctl, pc, hand, queues, rt_only, w_only, faults, put_text,
                   put_trans, spoken, late_puts>>

\* a faulty stop(), which empties the translation cache
stop_clearing ==
    /\ sup \in {"idle", "running", "stopped"}
    /\ is_running' = FALSE
    /\ sup' = "stopping"
    /\ drain' = IF is_running
                THEN [queued |-> Len(translation_queue), left |-> Len(translation_queue)]
                ELSE drain
    /\ restop' = ~is_running
    /\ translation_cache' = <<>>
    /\ UNCHANGED <<ctl, pc, hand, queues, rt_only, audio_buffer, fed, audio_chunk, engine_calls,
                   engine_answers, served, engine_result, reported, faults,
                   put_text,
                   put_trans, spoken, late_puts>>

\* stop(): self.is_running = False, then the grace sleep begins
stop ==
    /\ sup \in {"idle", "running", "stopped"}
    /\ is_running' = FALSE
    /\ sup' = "stopping"
    /\ drain' = IF is_running
                THEN [queued |-> Len(translation_queue), left |-> Len(translation_queue)]
                ELSE drain
    /\ restop' = ~is_running
    /\ UNCHANGED <<ctl, pc, hand, queues, rt_only, w_only, faults, put_text,
                   put_trans, spoken, late_puts>>

\* len(self.translation_cache)
Len_cache(cache) == Cardinality(DOMAIN cache)

\* a faulty stop(), which joins the worker threads before it returns
stop_return_joining ==
    /\ sup = "stopping"
    /\ \A w \in Workers : pc[w] \in {"none", "done"}
    /\ sup' = "stopped"
    /\ reported' = IF impl = "whisper" THEN Len_cache(translation_cache) ELSE reported
    /\ UNCHANGED <<ctl, is_running, pc, hand, queues, rt_only, audio_buffer,
                   translation_cache, fed, audio_chunk, engine_calls, engine_answers, served,
                   engine_result, hist>>

\* time.sleep(...) is over and stop() returns
stop_return ==
    /\ sup = "stopping"
    /\ sup' = "stopped"
    /\ reported' = IF impl = "whisper" THEN Len_cache(translation_cache) ELSE reported
    /\ UNCHANGED <<ctl, is_running, pc, hand, queues, rt_only, audio_buffer,
                   translation_cache, fed, audio_chunk, engine_calls, engine_answers, served,
                   engine_result, hist>>

\* a faulty size query, which counts an entry that the translator is about to store
report_cache_torn ==
    /\ sup = "running"
    /\ impl = "whisper"
    /\ reported' = IF /\ pc["translate"] = "call"
                      /\ hand["translate"] \notin DOMAIN translation_cache
                   THEN Len_cache(translation_cache) + 1
                   ELSE Len_cache(translation_cache)
    /\ UNCHANGED <<ctl, sup, is_running, pc, hand, queues, rt_only, audio_buffer,
                   translation_cache, fed, audio_chunk, engine_calls, engine_answers, served,
                   engine_result, hist>>

\* start(), after the threads are started: print(... len(self.translation_cache) ...)
\* and then, every 5 seconds, if len(self.translation_cache) > 0: print(...).
\* len() of a dict is one operation of the interpreter, as is the store of an item
report_cache ==
    /\ sup = "running"
    /\ impl = "whisper"
    /\ reported' = Len_cache(translation_cache)
    /\ UNCHANGED <<ctl, sup, is_running, pc, hand, queues, rt_only, audio_buffer,
                   translation_cache, fed, audio_chunk, engine_calls, engine_answers, served,
                   engine_result, hist>>

\* start() returns to main(), main() returns; the daemon threads die with the process
process_exit ==
    /\ sup = "stopped"
    /\ \E w \in Workers : pc[w] # "none"
    /\ sup' = "exited"
    /\ pc' = [w \in Workers |-> IF pc[w] \in {"done", "failed"} THEN pc[w] ELSE "killed"]
    /\ UNCHANGED <<ctl, is_running, hand, queues, rt_only, w_only, hist>>

----------------------------------------------------------------------------
(* Positions of a worker thread.  A thread that idles in its loop is either   *)
(* at the while test or inside the wait that follows it (time.sleep, or       *)
(* queue.get(timeout=1), which returns to the test on queue.Empty); both are   *)
(* the one position "sleep" (capture) or "wait" (the consumers).  While the    *)
(* flag is true the two cannot be told apart.  Once it is false, a thread at   *)
(* the test leaves the loop (the _exit actions) and a thread inside the wait   *)
(* still runs the loop body once.  The test that follows a loop body is part   *)
(* of the action that ends the body.                                           *)

----------------------------------------------------------------------------
(* RealtimeTranslator, stage 1: audio_callback and continuous_audio_capture *)

\* audio.open(...); stream.start_stream()   (RealtimeTranslator)
\* with sd.InputStream(...):                (WhisperRealtimeTranslator)
capture_open ==
    /\ Alive
    /\ pc["capture"] = "open"
    /\ pc' = [pc EXCEPT !["capture"] = "sleep"]
    /\ UNCHANGED <<ctl, sup, is_running, hand, queues, rt_only, w_only, hist>>

\* a faulty failure to open, which takes the whole pipeline down with it
capture_open_raises_fatal ==
    /\ Alive
    /\ pc["capture"] = "open"
    /\ pc' = [pc EXCEPT !["capture"] = "failed"]
    /\ is_running' = FALSE
    /\ UNCHANGED <<ctl, sup, hand, queues, rt_only, w_only, hist>>

\* audio.open(...) or sd.InputStream(...) raises: nothing in the thread catches
\* it, the thread ends with a traceback and the loop is never entered
capture_open_raises ==
    /\ Alive
    /\ pc["capture"] = "open"
    /\ pc' = [pc EXCEPT !["capture"] = "failed"]
    /\ UNCHANGED <<ctl, sup, is_running, hand, queues, rt_only, w_only, hist>>

\* if self.is_running: with self.lock: self.audio_frames.append(in_data)
audio_callback ==
    /\ Alive
    /\ impl = "realtime"
    /\ pc["capture"] \in {"sleep", "cleanup", "locked"}
    /\ is_running
    /\ lock = "free"
    /\ audio_frames < limits.frames
    /\ chunk_number + audio_frames < limits.chunks
    /\ audio_frames' = audio_frames + 1
    /\ unchunked' = unchunked + 1
    /\ UNCHANGED <<ctl, sup, is_running, pc, hand, queues, chunk_number, dropped,
                   blanks, w_only, hist>>

\* while self.is_running:
capture_continues == is_running

\* a faulty join, which leaves out one frame
Join_short(frames) == frames - 1

\* audio_chunk = b''.join(self.audio_frames): the number of frames in the chunk
Join(frames) == frames

\* the while test fails
capture_exit ==
    /\ Alive
    /\ impl = "realtime"
    /\ pc["capture"] = "sleep"
    /\ ~capture_continues
    /\ pc' = [pc EXCEPT !["capture"] = "cleanup"]
    /\ UNCHANGED <<ctl, sup, is_running, hand, queues, rt_only, w_only, hist>>

\* a faulty loop body, which waits while the speaker is playing an utterance
capture_tick_after_playback(peak) ==
    /\ Alive
    /\ impl = "realtime"
    /\ pc["capture"] = "sleep"
    /\ pc["speak"] # "playing"
    /\ pc' = [pc EXCEPT !["capture"] = IF capture_continues THEN "sleep" ELSE "cleanup"]
    /\ IF audio_frames > 0
       THEN /\ chunk_number' = chunk_number + 1
            /\ unchunked' = unchunked - Join(audio_frames)
            /\ audio_frames' = 0
            /\ IF Full(audio_queue, AUDIO_QUEUE_MAXSIZE)
               THEN /\ dropped' = dropped \cup {chunk_number + 1}
                    /\ UNCHANGED <<audio_queue, late_puts>>
               ELSE /\ audio_queue' = Put(audio_queue, chunk_number + 1)
                    /\ late_puts' = Late("capture")
                    /\ UNCHANGED dropped
       ELSE UNCHANGED <<chunk_number, unchunked, audio_frames, audio_queue, dropped,
                        late_puts>>
    /\ UNCHANGED <<ctl, sup, is_running, hand, text_queue, translation_queue,
                   blanks, w_only, faults, put_text, put_trans, spoken, drain, restop>>

\* a faulty loop body, whose enqueue is a blocking put(): it waits for a free slot
capture_tick_blocking(peak) ==
    /\ Alive
    /\ impl = "realtime"
    /\ pc["capture"] = "sleep"
    /\ pc' = [pc EXCEPT !["capture"] = IF capture_continues THEN "sleep" ELSE "cleanup"]
    /\ IF audio_frames > 0
       THEN /\ ~Full(audio_queue, AUDIO_QUEUE_MAXSIZE)
            /\ chunk_number' = chunk_number + 1
            /\ unchunked' = unchunked - Join(audio_frames)
            /\ audio_frames' = 0
            /\ audio_queue' = Put(audio_queue, chunk_number + 1)
            /\ late_puts' = Late("capture")
            /\ UNCHANGED dropped
       ELSE UNCHANGED <<chunk_number, unchunked, audio_frames, audio_queue, dropped,
                        late_puts>>
    /\ UNCHANGED <<ctl, sup, is_running, hand, text_queue, translation_queue,
                   blanks, w_only, faults, put_text, put_trans, spoken, drain, restop>>

\* a faulty tick, which starts numbering again at every chunk
capture_tick_renumbering(peak) ==
    /\ Alive
    /\ impl = "realtime"
    /\ pc["capture"] = "sleep"
    /\ pc' = [pc EXCEPT !["capture"] = IF capture_continues THEN "sleep" ELSE "cleanup"]
    /\ IF audio_frames > 0
       THEN /\ chunk_number' = 1
            /\ unchunked' = unchunked - Join(audio_frames)
            /\ audio_frames' = 0
            /\ IF Full(audio_queue, AUDIO_QUEUE_MAXSIZE)
               THEN /\ dropped' = dropped \cup {chunk_number + 1}
                    /\ UNCHANGED <<audio_queue, late_puts>>
               ELSE /\ audio_queue' = Put(audio_queue, chunk_number + 1)
                    /\ late_puts' = Late("capture")
                    /\ UNCHANGED dropped
       ELSE UNCHANGED <<chunk_number, unchunked, audio_frames, audio_queue, dropped,
                        late_puts>>
    /\ UNCHANGED <<ctl, sup, is_running, hand, text_queue, translation_queue,
                   blanks, w_only, faults, put_text, put_trans, spoken, drain, restop>>

\* the loop body after time.sleep(self.chunk_duration): with self.lock:
\*   if len(self.audio_frames) > 0: chunk_number += 1; join and clear the frames;
\*   try: self.audio_queue.put_nowait(audio_data) except queue.Full: skip the chunk.
\* peak is the loudness of the accumulated audio, which the code never looks at
capture_tick(peak) ==
    /\ Alive
    /\ impl = "realtime"
    /\ pc["capture"] = "sleep"
    /\ pc' = [pc EXCEPT !["capture"] = IF capture_continues THEN "sleep" ELSE "cleanup"]
    /\ IF audio_frames > 0
       THEN /\ chunk_number' = chunk_number + 1
            /\ unchunked' = unchunked - Join(audio_frames)
            /\ audio_frames' = 0
            /\ IF Full(audio_queue, AUDIO_QUEUE_MAXSIZE)
               THEN /\ dropped' = dropped \cup {chunk_number + 1}
                    /\ UNCHANGED <<audio_queue, late_puts>>
               ELSE /\ audio_queue' = Put(audio_queue, chunk_number + 1)
                    /\ late_puts' = Late("capture")
                    /\ UNCHANGED dropped
       ELSE UNCHANGED <<chunk_number, unchunked, audio_frames, audio_queue, dropped,
                        late_puts>>
    /\ UNCHANGED <<ctl, sup, is_running, hand, text_queue, translation_queue,
                   blanks, w_only, faults, put_text, put_trans, spoken, drain, restop>>

(* The loop body of continuous_audio_capture in two steps, with self.lock held  *)
(* between them: capture_tick is the two taken as one.                          *)

\* after time.sleep(self.chunk_duration): with self.lock: (the lock is acquired)
capture_acquire ==
    /\ Alive
    /\ impl = "realtime"
    /\ pc["capture"] = "sleep"
    /\ lock = "free"
    /\ lock' = "capture"
    /\ pc' = [pc EXCEPT !["capture"] = "locked"]
    /\ UNCHANGED <<impl, limits, listen_pc, temp_files, sup, is_running, hand, queues, rt_only,
                   w_only, hist>>

\* a faulty body, whose enqueue under the lock is a blocking put()
capture_locked_blocking(peak) ==
    /\ Alive
    /\ impl = "realtime"
    /\ pc["capture"] = "locked"
    /\ lock = "capture"
    /\ lock' = "free"
    /\ pc' = [pc EXCEPT !["capture"] = IF capture_continues THEN "sleep" ELSE "cleanup"]
    /\ IF audio_frames > 0
       THEN /\ chunk_number' = chunk_number + 1
            /\ unchunked' = unchunked - Join(audio_frames)
            /\ audio_frames' = 0
            /\ ~Full(audio_queue, AUDIO_QUEUE_MAXSIZE)
            /\ audio_queue' = Put(audio_queue, chunk_number + 1)
            /\ late_puts' = Late("capture")
            /\ UNCHANGED dropped
       ELSE UNCHANGED <<chunk_number, unchunked, audio_frames, audio_queue, dropped,
                        late_puts>>
    /\ UNCHANGED <<impl, limits, listen_pc, temp_files, sup, is_running, hand, text_queue,
                   translation_queue, blanks, w_only, faults, put_text, put_trans,
                   spoken, drain, restop>>

\* the body of the with block: join, clear, put_nowait or skip on queue.Full; the
\* lock is released on leaving the block; then the while test
capture_locked(peak) ==
    /\ Alive
    /\ impl = "realtime"
    /\ pc["capture"] = "locked"
    /\ lock = "capture"
    /\ lock' = "free"
    /\ pc' = [pc EXCEPT !["capture"] = IF capture_continues THEN "sleep" ELSE "cleanup"]
    /\ IF audio_frames > 0
       THEN /\ chunk_number' = chunk_number + 1
            /\ unchunked' = unchunked - Join(audio_frames)
            /\ audio_frames' = 0
            /\ IF Full(audio_queue, AUDIO_QUEUE_MAXSIZE)
               THEN /\ dropped' = dropped \cup {chunk_number + 1}
                    /\ UNCHANGED <<audio_queue, late_puts>>
               ELSE /\ audio_queue' = Put(audio_queue, chunk_number + 1)
                    /\ late_puts' = Late("capture")
                    /\ UNCHANGED dropped
       ELSE UNCHANGED <<chunk_number, unchunked, audio_frames, audio_queue, dropped,
                        late_puts>>
    /\ UNCHANGED <<impl, limits, listen_pc, temp_files, sup, is_running, hand, text_queue,
                   translation_queue, blanks, w_only, faults, put_text, put_trans,
                   spoken, drain, restop>>

\* sr.AudioData(audio_chunk, self.RATE, 2): what the item put on audio_queue is
\* made of; chunk_number goes into the two print calls only
AudioData == {"frame_data", "sample_rate", "sample_width"}

\* text_queue and translation_queue hold the str that the engine returned
Str == {"characters"}

\* stream.stop_stream(); stream.close(); audio.terminate()
capture_cleanup ==
    /\ Alive
    /\ impl = "realtime"
    /\ pc["capture"] = "cleanup"
    /\ pc' = [pc EXCEPT !["capture"] = "done"]
    /\ UNCHANGED <<ctl, sup, is_running, hand, queues, rt_only, w_only, hist>>

----------------------------------------------------------------------------
(* Stage 2: recognize_speech (transcribe_audio in WhisperRealtimeTranslator) *)

\* a faulty loop test, which never fails
recognize_forever == TRUE

\* while self.is_running:
recognize_continues == is_running

\* the while test fails
recognize_exit ==
    /\ Alive
    /\ pc["recognize"] = "wait"
    /\ ~recognize_continues
    /\ pc' = [pc EXCEPT !["recognize"] = "done"]
    /\ UNCHANGED <<ctl, sup, is_running, hand, queues, rt_only, w_only, hist>>

\* a faulty get, which leaves the chunk it returns on the queue
recognize_get_peeking ==
    /\ Alive
    /\ pc["recognize"] = "wait"
    /\ audio_queue # <<>>
    /\ hand' = [hand EXCEPT !["recognize"] = Front(audio_queue)]
    /\ pc' = [pc EXCEPT !["recognize"] = "call"]
    /\ UNCHANGED <<ctl, sup, is_running, queues, rt_only, w_only, hist>>

\* audio_data = self.audio_queue.get(timeout=1)
recognize_get ==
    /\ Alive
    /\ pc["recognize"] = "wait"
    /\ audio_queue # <<>>
    /\ hand' = [hand EXCEPT !["recognize"] = Front(audio_queue)]
    /\ audio_queue' = Rest(audio_queue)
    /\ pc' = [pc EXCEPT !["recognize"] = "call"]
    /\ UNCHANGED <<ctl, sup, is_running, text_queue, translation_queue, rt_only,
                   w_only, hist>>

\* the outcomes of an engine call that the budget of the run still allows
Outcomes == IF faults < limits.faults THEN {"ok", "empty", "raise"} ELSE {"ok"}

\* the recognizer of RealtimeTranslator may also return whitespace only, as often
\* in a run as the budget allows an engine fault
BlankOutcome == IF Cardinality(blanks) < limits.faults THEN {"blank"} ELSE {}

\* if text: a Python string is true unless it is empty
IsText(outcome) == outcome \in {"ok", "blank"}

\* a faulty loop body, whose enqueue is put_nowait() on a queue of one slot: the
\* text is skipped when the queue is full
recognize_call_dropping(outcome) ==
    /\ Alive
    /\ impl = "realtime"
    /\ pc["recognize"] = "call"
    /\ outcome \in Outcomes \cup BlankOutcome
    /\ IsText(outcome) => Len(put_text) < limits.texts
    /\ IF IsText(outcome)
       THEN /\ IF Full(text_queue, 1)
               THEN UNCHANGED <<text_queue, put_text, late_puts, blanks>>
               ELSE /\ text_queue' = Put(text_queue, hand["recognize"])
                    /\ put_text' = Append(put_text, hand["recognize"])
                    /\ late_puts' = Late("recognize")
                    /\ blanks' = IF outcome = "blank"
                                 THEN blanks \cup {hand["recognize"]} ELSE blanks
            /\ UNCHANGED faults
       ELSE /\ faults' = faults + 1
            /\ UNCHANGED <<text_queue, put_text, late_puts, blanks>>
    /\ hand' = [hand EXCEPT !["recognize"] = NoItem]
    /\ pc' = [pc EXCEPT !["recognize"] = IF recognize_continues THEN "wait" ELSE "done"]
    /\ UNCHANGED <<ctl, sup, is_running, audio_queue, translation_queue,
                   audio_frames, chunk_number, dropped, unchunked,
                   w_only, put_trans, spoken, drain, restop>>

\* text = self.recognizer.recognize_google(...); if text: self.text_queue.put(text)
\* UnknownValueError, RequestError and Exception are caught and the loop goes on.
\* outcome is what the engine does: it returns a text with words in it ("ok"), a
\* text of whitespace only ("blank"), the empty text ("empty"), or it raises
recognize_call(outcome) ==
    /\ Alive
    /\ impl = "realtime"
    /\ pc["recognize"] = "call"
    /\ outcome \in Outcomes \cup BlankOutcome
    /\ IsText(outcome) => Len(put_text) < limits.texts
    /\ IF IsText(outcome)
       THEN /\ text_queue' = Put(text_queue, hand["recognize"])
            /\ put_text' = Append(put_text, hand["recognize"])
            /\ late_puts' = Late("recognize")
            /\ blanks' = IF outcome = "blank"
                         THEN blanks \cup {hand["recognize"]} ELSE blanks
            /\ UNCHANGED faults
       ELSE /\ faults' = faults + 1
            /\ UNCHANGED <<text_queue, put_text, late_puts, blanks>>
    /\ hand' = [hand EXCEPT !["recognize"] = NoItem]
    /\ pc' = [pc EXCEPT !["recognize"] = IF recognize_continues THEN "wait" ELSE "done"]
    /\ UNCHANGED <<ctl, sup, is_running, audio_queue, translation_queue,
                   audio_frames, chunk_number, dropped, unchunked,
                   w_only, put_trans, spoken, drain, restop>>

----------------------------------------------------------------------------
(* Stage 3: translate_text *)

\* while self.is_running:
translate_continues == is_running

\* the while test fails
translate_exit ==
    /\ Alive
    /\ pc["translate"] = "wait"
    /\ ~translate_continues
    /\ pc' = [pc EXCEPT !["translate"] = "done"]
    /\ UNCHANGED <<ctl, sup, is_running, hand, queues, rt_only, w_only, hist>>

\* text = self.text_queue.get(timeout=1)
translate_get ==
    /\ Alive
    /\ pc["translate"] = "wait"
    /\ text_queue # <<>>
    /\ hand' = [hand EXCEPT !["translate"] = Front(text_queue)]
    /\ text_queue' = Rest(text_queue)
    /\ pc' = [pc EXCEPT !["translate"] = "call"]
    /\ UNCHANGED <<ctl, sup, is_running, audio_queue, translation_queue, rt_only,
                   w_only, hist>>

\* a faulty loop body, which does not catch what the engine raises: the thread ends
translate_call_uncaught(outcome) ==
    /\ Alive
    /\ impl = "realtime"
    /\ pc["translate"] = "call"
    /\ outcome \in Outcomes \ {"empty"}
    /\ outcome = "ok" => Len(put_trans) < limits.translations
    /\ IF outcome = "ok"
       THEN /\ translation_queue' = Put(translation_queue, hand["translate"])
            /\ put_trans' = Append(put_trans, hand["translate"])
            /\ late_puts' = Late("translate")
            /\ pc' = [pc EXCEPT !["translate"] =
                         IF translate_continues THEN "wait" ELSE "done"]
            /\ UNCHANGED faults
       ELSE /\ faults' = faults + 1
            /\ pc' = [pc EXCEPT !["translate"] = "done"]
            /\ UNCHANGED <<translation_queue, put_trans, late_puts>>
    /\ hand' = [hand EXCEPT !["translate"] = NoItem]
    /\ UNCHANGED <<ctl, sup, is_running, audio_queue, text_queue, rt_only, w_only,
                   put_text, spoken, drain, restop>>

\* translation = self.translator.translate(...);
\* self.translation_queue.put(translation.text), whatever the text is.
\* Exception is caught and the loop goes on
translate_call(outcome) ==
    /\ Alive
    /\ impl = "realtime"
    /\ pc["translate"] = "call"
    /\ outcome \in Outcomes \ {"empty"}
    /\ outcome = "ok" => Len(put_trans) < limits.translations
    /\ IF outcome = "ok"
       THEN /\ translation_queue' = Put(translation_queue, hand["translate"])
            /\ put_trans' = Append(put_trans, hand["translate"])
            /\ late_puts' = Late("translate")
            /\ UNCHANGED faults
       ELSE /\ faults' = faults + 1
            /\ UNCHANGED <<translation_queue, put_trans, late_puts>>
    /\ hand' = [hand EXCEPT !["translate"] = NoItem]
    /\ pc' = [pc EXCEPT !["translate"] = IF translate_continues THEN "wait" ELSE "done"]
    /\ UNCHANGED <<ctl, sup, is_running, audio_queue, text_queue, rt_only, w_only,
                   put_text, spoken, drain, restop>>

----------------------------------------------------------------------------
(* Stage 4: speak_translation *)

\* a faulty loop test, which does not look at the queue
speak_while_running == is_running

\* while self.is_running or not self.translation_queue.empty():
speak_continues == is_running \/ translation_queue # <<>>

\* the while test fails
speak_exit ==
    /\ Alive
    /\ pc["speak"] = "wait"
    /\ ~speak_continues
    /\ pc' = [pc EXCEPT !["speak"] = "done"]
    /\ UNCHANGED <<ctl, sup, is_running, hand, queues, rt_only, w_only, hist>>

\* text = self.translation_queue.get(timeout=1)
speak_get ==
    /\ Alive
    /\ pc["speak"] = "wait"
    /\ translation_queue # <<>>
    /\ hand' = [hand EXCEPT !["speak"] = Front(translation_queue)]
    /\ translation_queue' = Rest(translation_queue)
    /\ pc' = [pc EXCEPT !["speak"] = "synth"]
    /\ drain' = IF drain.left > 0 THEN [drain EXCEPT !.left = @ - 1] ELSE drain
    /\ UNCHANGED <<ctl, sup, is_running, audio_queue, text_queue, rt_only, w_only,
                   faults, put_text, put_trans, spoken, late_puts, restop>>

\* gTTS(...); with tempfile.NamedTemporaryFile(delete=False, suffix='.mp3') as fp:
\* tts.save(temp_file); pygame.mixer.music.load(temp_file); .play()
\* Exception is caught and the loop goes on: gTTS(...) raises before the file is
\* created, tts.save, load and play raise after it
speak_synth(outcome) ==
    /\ Alive
    /\ pc["speak"] = "synth"
    /\ outcome \in Outcomes \ {"empty"}
    /\ IF outcome = "ok"
       THEN /\ spoken' = Append(spoken, hand["speak"])
            /\ pc' = [pc EXCEPT !["speak"] = "playing"]
            /\ temp_files' = temp_files + 1
            /\ UNCHANGED <<faults, hand>>
       ELSE /\ faults' = faults + 1
            /\ hand' = [hand EXCEPT !["speak"] = NoItem]
            /\ pc' = [pc EXCEPT !["speak"] = IF speak_continues THEN "wait" ELSE "done"]
            /\ temp_files' \in {temp_files, temp_files + 1}
            /\ UNCHANGED spoken
    /\ UNCHANGED <<impl, limits, listen_pc, lock, sup, is_running, queues, rt_only,
                   w_only, put_text, put_trans, late_puts, drain, restop>>

\* while pygame.mixer.music.get_busy(): time.sleep(0.1) has ended; unload(); unlink()
speak_played ==
    /\ Alive
    /\ pc["speak"] = "playing"
    /\ hand' = [hand EXCEPT !["speak"] = NoItem]
    /\ temp_files' = temp_files - 1
    /\ pc' = [pc EXCEPT !["speak"] = IF speak_continues THEN "wait" ELSE "done"]
    /\ UNCHANGED <<impl, limits, listen_pc, lock, sup, is_running, queues, rt_only,
                   w_only, hist>>

----------------------------------------------------------------------------
(* WhisperRealtimeTranslator, stage 1: record_audio_chunk *)

\* collections.deque(maxlen=...).extend: a full deque discards from the left
Extend(buffer, sample) ==
    LET b == Append(buffer, sample)
    IN  IF Len(b) > BufferMaxlen THEN Tail(b) ELSE b

Abs(x) == IF x < 0 THEN -x ELSE x

\* np.abs(audio_chunk).max()
RECURSIVE Peak(_)
Peak(chunk) ==
    IF Len(chunk) = 1 THEN Abs(chunk[1])
    ELSE LET rest == Peak(Tail(chunk))
         IN  IF Abs(chunk[1]) > rest THEN Abs(chunk[1]) ELSE rest

\* a faulty test, which takes every chunk for speech
IsSpeech_always(chunk) == TRUE

\* np.abs(audio_chunk).max() > 0.01
IsSpeech(chunk) == Peak(chunk) > SILENCE_THRESHOLD

\* audio_callback of record_audio_chunk: self.audio_buffer.extend(indata[:, 0])
record_callback(sample) ==
    /\ Alive
    /\ impl = "whisper"
    /\ pc["capture"] \in {"sleep", "clear"}
    /\ fed < MaxSamples
    /\ fed' = fed + 1
    /\ audio_buffer' = Extend(audio_buffer, sample)
    /\ UNCHANGED <<ctl, sup, is_running, pc, hand, queues, rt_only,
                   translation_cache, engine_calls, engine_answers, served,
                   engine_result, reported, audio_chunk, hist>>

\* the while test fails; leaving with sd.InputStream(...) closes the stream
record_exit ==
    /\ Alive
    /\ impl = "whisper"
    /\ pc["capture"] = "sleep"
    /\ ~capture_continues
    /\ pc' = [pc EXCEPT !["capture"] = "done"]
    /\ UNCHANGED <<ctl, sup, is_running, hand, queues, rt_only, w_only, hist>>

\* after time.sleep(self.chunk_duration): if len(self.audio_buffer) > 0:
\*   audio_chunk = np.array(list(self.audio_buffer));
\*   if np.abs(audio_chunk).max() > 0.01: self.audio_queue.put(audio_chunk.copy())
record_snapshot ==
    /\ Alive
    /\ impl = "whisper"
    /\ pc["capture"] = "sleep"
    /\ IF Len(audio_buffer) > 0
       THEN /\ pc' = [pc EXCEPT !["capture"] = "clear"]
            /\ audio_chunk' = audio_buffer
            /\ IF IsSpeech(audio_buffer)
               THEN /\ audio_queue' = Put(audio_queue, audio_buffer)
                    /\ late_puts' = Late("capture")
               ELSE UNCHANGED <<audio_queue, late_puts>>
       ELSE /\ pc' = [pc EXCEPT !["capture"] = IF capture_continues THEN "sleep" ELSE "done"]
            /\ UNCHANGED <<audio_queue, late_puts, audio_chunk>>
    /\ UNCHANGED <<ctl, sup, is_running, hand, text_queue, translation_queue,
                   rt_only, audio_buffer, translation_cache, fed, engine_calls,
                   engine_answers, served, engine_result, reported, faults,
                   put_text, put_trans, spoken, drain, restop>>

\* self.audio_buffer.clear()
record_clear ==
    /\ Alive
    /\ impl = "whisper"
    /\ pc["capture"] = "clear"
    /\ audio_buffer' = <<>>
    /\ audio_chunk' = <<>>
    /\ pc' = [pc EXCEPT !["capture"] = IF capture_continues THEN "sleep" ELSE "done"]
    /\ UNCHANGED <<ctl, sup, is_running, hand, queues, rt_only, translation_cache,
                   fed, engine_calls, engine_answers, served,
                   engine_result, reported, hist>>

----------------------------------------------------------------------------
(* WhisperRealtimeTranslator, stage 2: transcribe_audio *)

\* str.strip(), on a text given as its pieces
RECURSIVE LStrip(_)
LStrip(raw) ==
    IF raw # <<>> /\ Head(raw) = Blank THEN LStrip(Tail(raw)) ELSE raw

RECURSIVE RStrip(_)
RStrip(raw) ==
    IF raw # <<>> /\ raw[Len(raw)] = Blank
    THEN RStrip(SubSeq(raw, 1, Len(raw) - 1)) ELSE raw

Strip(raw) == RStrip(LStrip(raw))

\* result = self.whisper_model.transcribe(...); text = result['text'].strip();
\* if text: self.text_queue.put(text).  Exception is caught and the loop goes on
transcribe_call(outcome, result) ==
    /\ Alive
    /\ impl = "whisper"
    /\ pc["recognize"] = "call"
    /\ (outcome = "raise" \/ Strip(result) = <<>>) => faults < limits.faults
    /\ IF outcome = "ok" /\ Strip(result) # <<>>
       THEN /\ text_queue' = Put(text_queue, Strip(result))
            /\ late_puts' = Late("recognize")
            /\ UNCHANGED faults
       ELSE /\ faults' = faults + 1
            /\ UNCHANGED <<text_queue, late_puts>>
    /\ hand' = [hand EXCEPT !["recognize"] = NoItem]
    /\ pc' = [pc EXCEPT !["recognize"] = IF recognize_continues THEN "wait" ELSE "done"]
    /\ UNCHANGED <<ctl, sup, is_running, audio_queue, translation_queue, rt_only,
                   w_only, put_text, put_trans, spoken, drain, restop>>

----------------------------------------------------------------------------
(* WhisperRealtimeTranslator, stage 3: translate_text with the cache *)

\* a faulty assignment, which stores nothing
Store_nothing(cache, text, translated_text) == cache

\* a faulty store, which keeps the newest entry only
Store_evicting(cache, text, translated_text) == [t \in {text} |-> translated_text]

\* self.translation_cache[text] = translated_text
Store(cache, text, translated_text) ==
    [t \in DOMAIN cache \cup {text} |-> IF t = text THEN translated_text ELSE cache[t]]

\* a faulty loop body, which puts the text back on text_queue when the engine raises
cached_translate_call_requeue(outcome, answer) ==
    /\ Alive
    /\ impl = "whisper"
    /\ pc["translate"] = "call"
    /\ LET text == hand["translate"] IN
       IF text \in DOMAIN translation_cache
       THEN /\ translation_queue' = Put(translation_queue, translation_cache[text])
            /\ served' = served \cup {<<text, translation_cache[text]>>}
            /\ late_puts' = Late("translate")
            /\ UNCHANGED <<translation_cache, engine_calls, engine_answers, engine_result, faults,
                           text_queue>>
       ELSE /\ engine_calls' = [engine_calls EXCEPT ![text] = @ + 1]
            /\ IF outcome = "raise"
               THEN /\ faults < limits.faults
                    /\ faults' = faults + 1
                    /\ text_queue' = Put(text_queue, text)
                    /\ UNCHANGED <<translation_cache, engine_answers, engine_result,
                                   translation_queue, served, late_puts>>
               ELSE /\ engine_answers' = [engine_answers EXCEPT ![text] = @ + 1]
                    /\ engine_result' = answer
                    /\ translation_cache' = Store(translation_cache, text, answer)
                    /\ translation_queue' = Put(translation_queue, answer)
                    /\ served' = served \cup {<<text, answer>>}
                    /\ late_puts' = Late("translate")
                    /\ UNCHANGED <<faults, text_queue>>
    /\ hand' = [hand EXCEPT !["translate"] = NoItem]
    /\ pc' = [pc EXCEPT !["translate"] = IF translate_continues THEN "wait" ELSE "done"]
    /\ UNCHANGED <<ctl, sup, is_running, audio_queue, rt_only,
                   audio_buffer, fed, audio_chunk, reported, put_text, put_trans, spoken, drain,
                   restop>>

\* a faulty loop body, which asks the engine again for a text that is in the cache
cached_translate_call_refetch(outcome, answer) ==
    /\ Alive
    /\ impl = "whisper"
    /\ pc["translate"] = "call"
    /\ outcome = "ok"
    /\ LET text == hand["translate"] IN
       /\ engine_calls' = [engine_calls EXCEPT ![text] = @ + 1]
       /\ engine_result' = answer
       /\ translation_queue' = Put(translation_queue, answer)
       /\ served' = served \cup {<<text, answer>>}
       /\ late_puts' = Late("translate")
       /\ IF text \in DOMAIN translation_cache
          THEN UNCHANGED <<translation_cache, engine_answers>>
          ELSE /\ engine_answers' = [engine_answers EXCEPT ![text] = @ + 1]
               /\ translation_cache' = Store(translation_cache, text, answer)
    /\ hand' = [hand EXCEPT !["translate"] = NoItem]
    /\ pc' = [pc EXCEPT !["translate"] = IF translate_continues THEN "wait" ELSE "done"]
    /\ UNCHANGED <<ctl, sup, is_running, audio_queue, text_queue, rt_only,
                   audio_buffer, fed, audio_chunk, reported, faults, put_text, put_trans, spoken,
                   drain, restop>>

\* if text in self.translation_cache: translated_text = self.translation_cache[text]
\* else: translated_text = self.translator.translate(text);
\*       self.translation_cache[text] = translated_text
\* self.translation_queue.put(translated_text)
\* Exception is caught and the loop goes on
cached_translate_call(outcome, answer) ==
    /\ Alive
    /\ impl = "whisper"
    /\ pc["translate"] = "call"
    /\ LET text == hand["translate"] IN
       IF text \in DOMAIN translation_cache
       THEN /\ translation_queue' = Put(translation_queue, translation_cache[text])
            /\ served' = served \cup {<<text, translation_cache[text]>>}
            /\ late_puts' = Late("translate")
            /\ UNCHANGED <<translation_cache, engine_calls, engine_answers,
                           engine_result, faults>>
       ELSE /\ engine_calls' = [engine_calls EXCEPT ![text] = @ + 1]
            /\ IF outcome = "raise"
               THEN /\ faults < limits.faults
                    /\ faults' = faults + 1
                    /\ UNCHANGED <<translation_cache, engine_answers, engine_result,
                                   translation_queue, served, late_puts>>
               ELSE /\ engine_answers' = [engine_answers EXCEPT ![text] = @ + 1]
                    /\ engine_result' = answer
                    /\ translation_cache' = Store(translation_cache, text, answer)
                    /\ translation_queue' = Put(translation_queue, answer)
                    /\ served' = served \cup {<<text, answer>>}
                    /\ late_puts' = Late("translate")
                    /\ UNCHANGED faults
    /\ hand' = [hand EXCEPT !["translate"] = NoItem]
    /\ pc' = [pc EXCEPT !["translate"] = IF translate_continues THEN "wait" ELSE "done"]
    /\ UNCHANGED <<ctl, sup, is_running, audio_queue, text_queue, rt_only,
                   audio_buffer, fed, audio_chunk, reported, put_text, put_trans, spoken, drain,
                   restop>>

----------------------------------------------------------------------------
(* The two pipelines *)

Shared ==
    \/ start
    \/ stop
    \/ stop_return
    \/ process_exit
    \/ capture_open
    \/ capture_open_raises
    \/ recognize_exit
    \/ recognize_get
    \/ translate_exit
    \/ translate_get
    \/ speak_exit
    \/ speak_get
    \/ \E outcome \in {"ok", "raise"} : speak_synth(outcome)
    \/ speak_played

RealtimeOnly ==
    \/ audio_callback
    \/ capture_exit
    \/ \E peak \in Levels : capture_tick(peak)
    \/ capture_cleanup
    \/ \E outcome \in {"ok", "blank", "empty", "raise"} : recognize_call(outcome)
    \/ \E outcome \in {"ok", "raise"} : translate_call(outcome)

WhisperOnly ==
    \/ report_cache
    \/ \E sample \in Samples : record_callback(sample)
    \/ record_exit
    \/ record_snapshot
    \/ record_clear
    \/ \E outcome \in {"ok", "raise"}, result \in RawResults :
           transcribe_call(outcome, result)
    \/ \E outcome \in {"ok", "raise"}, answer \in Answers :
           cached_translate_call(outcome, answer)

----------------------------------------------------------------------------
(* TranslatorGUI.  sup is the state of the two buttons: the start button is   *)
(* enabled unless sup is "running", the stop button is enabled when it is.    *)

InitGui ==
    InitWith("gui", [chunks |-> 0, faults |-> 0, frames |-> 0, texts |-> 0,
                     translations |-> 0])

\* start_translation(): if self.is_running: return; self.is_running = True; the
\* start button is disabled, the stop button enabled; a listening thread is started
start_translation(i) ==
    /\ impl = "gui"
    /\ sup # "running"
    /\ ~is_running
    /\ listen_pc[i] = "none"
    /\ \A j \in 1..(i - 1) : listen_pc[j] # "none"
    /\ is_running' = TRUE
    /\ sup' = "running"
    /\ listen_pc' = [listen_pc EXCEPT ![i] = "init"]
    /\ UNCHANGED <<impl, limits, lock, temp_files, pc, hand, queues, rt_only, w_only, hist>>

\* the stop button: stop_translation(): self.is_running = False; the start button
\* is enabled, the stop button disabled
stop_translation ==
    /\ impl = "gui"
    /\ sup = "running"
    /\ is_running' = FALSE
    /\ sup' = "stopped"
    /\ UNCHANGED <<ctl, pc, hand, queues, rt_only, w_only, hist>>

\* self.microphone = sr.Microphone(); with self.microphone as source:
\* adjust_for_ambient_noise(source, duration=2): the loop is entered, or an
\* exception takes the thread to the outer handler
listen_init(i, outcome) ==
    /\ impl = "gui"
    /\ listen_pc[i] = "init"
    /\ listen_pc' = [listen_pc EXCEPT ![i] = IF outcome = "ok" THEN "test" ELSE "fatal"]
    /\ UNCHANGED <<impl, limits, lock, temp_files, sup, is_running, pc, hand, queues, rt_only, w_only,
                   hist>>

\* while self.is_running:
listen_test(i) ==
    /\ impl = "gui"
    /\ listen_pc[i] = "test"
    /\ listen_pc' = [listen_pc EXCEPT ![i] = IF is_running THEN "listen" ELSE "done"]
    /\ UNCHANGED <<impl, limits, lock, temp_files, sup, is_running, pc, hand, queues, rt_only, w_only,
                   hist>>

\* the positions of the loop body, in order
AfterStage(stage) ==
    CASE stage = "listen" -> "recognize"
      [] stage = "recognize" -> "translate"
      [] stage = "translate" -> "synth"
      [] stage = "synth" -> "playing"

\* recognizer.listen, recognize_google, translator.translate, gTTS and load and
\* play: each goes on to the next stage, or raises; WaitTimeoutError,
\* UnknownValueError and Exception are caught in the loop, which goes on
listen_stage(i, outcome) ==
    /\ impl = "gui"
    /\ listen_pc[i] \in {"listen", "recognize", "translate", "synth"}
    /\ listen_pc' = [listen_pc EXCEPT
                         ![i] = IF outcome = "ok" THEN AfterStage(@) ELSE "test"]
    /\ UNCHANGED <<impl, limits, lock, temp_files, sup, is_running, pc, hand, queues, rt_only, w_only,
                   hist>>

\* while pygame.mixer.music.get_busy(): if not self.is_running: stop(); break
\* then unload and unlink: playback ends, or is cut short when the flag is false
listen_played(i) ==
    /\ impl = "gui"
    /\ listen_pc[i] = "playing"
    /\ listen_pc' = [listen_pc EXCEPT ![i] = "test"]
    /\ UNCHANGED <<impl, limits, lock, temp_files, sup, is_running, pc, hand, queues, rt_only, w_only,
                   hist>>

\* except Exception as e: ...; self.stop_translation()   (on the listening thread)
listen_fatal(i) ==
    /\ impl = "gui"
    /\ listen_pc[i] = "fatal"
    /\ is_running' = FALSE
    /\ sup' = "stopped"
    /\ listen_pc' = [listen_pc EXCEPT ![i] = "done"]
    /\ UNCHANGED <<impl, limits, lock, temp_files, pc, hand, queues, rt_only, w_only, hist>>

NextGui ==
    \/ \E i \in 1..MaxListeners : start_translation(i)
    \/ stop_translation
    \/ \E i \in 1..MaxListeners, outcome \in {"ok", "raise"} : listen_init(i, outcome)
    \/ \E i \in 1..MaxListeners : listen_test(i)
    \/ \E i \in 1..MaxListeners, outcome \in {"ok", "raise"} : listen_stage(i, outcome)
    \/ \E i \in 1..MaxListeners : listen_played(i)
    \/ \E i \in 1..MaxListeners : listen_fatal(i)

NextR == Shared \/ RealtimeOnly

\* RealtimeTranslator with the capture loop body in two steps
NextLock ==
    \/ Shared
    \/ audio_callback
    \/ capture_exit
    \/ capture_acquire
    \/ \E peak \in Levels : capture_locked(peak)
    \/ capture_cleanup
    \/ \E outcome \in {"ok", "blank", "empty", "raise"} : recognize_call(outcome)
    \/ \E outcome \in {"ok", "raise"} : translate_call(outcome)
Next == Shared \/ RealtimeOnly \/ WhisperOnly

Spec == Init /\ [][Next]_vars
SpecSlow == InitSlow /\ [][NextR]_vars
SpecFlood == InitFlood /\ [][NextR]_vars
SpecLock == InitSlow /\ [][NextLock]_vars
SpecDelay == InitDelay /\ [][NextR]_vars
SpecGui == InitGui /\ [][NextGui]_vars

----------------------------------------------------------------------------
(* Properties *)

Ids(n) == [i \in 1..n |-> i]

IsPrefix(s, t) == Len(s) <= Len(t) /\ s = SubSeq(t, 1, Len(s))

\* every worker thread has returned or died with the process
RunOver == \A w \in Workers : pc[w] \in {"done", "killed"}

\* RealtimeTranslator: no chunk was skipped on a full queue, no engine call failed
\* or returned no text
NoLoss == impl = "realtime" /\ dropped = {} /\ faults = 0

\* nothing is in a queue, in a worker's hands or in the callback's frame list
Quiescent ==
    /\ audio_queue = <<>> /\ text_queue = <<>> /\ translation_queue = <<>>
    /\ \A w \in Workers : hand[w] = NoItem
    /\ audio_frames = 0

\* C1 as stated: in a run of RealtimeTranslator with no full queue and no failed or
\* empty engine call, when the run is over every one of the N captured chunks has
\* been put on text_queue, put on translation_queue and spoken, in capture order.
C1_NoLossWhenRunOver ==
    (NoLoss /\ RunOver) =>
        /\ put_text = Ids(chunk_number)
        /\ put_trans = Ids(chunk_number)
        /\ spoken = Ids(chunk_number)

\* C1 amended: in a run of RealtimeTranslator with no full queue and no failed or
\* empty engine call, the texts put, the translations put and the utterances spoken
\* are at every moment prefixes of one another and of the capture order, and once no
\* chunk is left in a queue or in a worker's hands all N captured chunks have been
\* put on both queues and spoken.  A chunk that stop() strands in a queue is lost.
C1_NoLossUnderCapacity ==
    NoLoss =>
        /\ IsPrefix(put_text, Ids(chunk_number))
        /\ IsPrefix(put_trans, put_text)
        /\ IsPrefix(spoken, put_trans)
        /\ Quiescent => /\ put_text = Ids(chunk_number)
                        /\ put_trans = Ids(chunk_number)
                        /\ spoken = Ids(chunk_number)

\* C1 witness: two chunks were captured and both went through to the speaker
C1_AllSpoken ==
    NoLoss /\ Quiescent /\ chunk_number >= 2 /\ Len(spoken) = chunk_number

\* the capture thread of RealtimeTranslator has slept and has frames to enqueue
\* while audio_queue holds its 10 items
EnqueueOnFull ==
    /\ Alive
    /\ impl = "realtime"
    /\ pc["capture"] = "sleep"
    /\ audio_frames > 0
    /\ Len(audio_queue) >= AUDIO_QUEUE_MAXSIZE

\* everything the recognizer holds or has passed on
Downstream ==
    {hand["recognize"]} \cup Range(put_text) \cup Range(put_trans) \cup Range(spoken)

\* C2: when the capture loop of RealtimeTranslator enqueues a chunk while
\* audio_queue holds 10 items, the step can be taken at once, whatever the
\* recognizer does; the step leaves audio_queue as it was and skips the chunk; and a
\* skipped chunk is never in audio_queue, in the recognizer's hands or further down.
C2_DropNotBlock ==
    /\ [](EnqueueOnFull => ENABLED (\E peak \in Levels : capture_tick(peak)))
    /\ [][(EnqueueOnFull /\ chunk_number' # chunk_number) =>
              /\ audio_queue' = audio_queue
              /\ chunk_number' \in dropped'
              /\ pc'["capture"] \in {"sleep", "cleanup"}]_vars
    /\ [](dropped \cap (Range(audio_queue) \cup Downstream) = {})

\* C2 witness: a chunk was skipped and audio_queue still holds its 10 items
C2_DroppedOnFull ==
    /\ dropped # {}
    /\ Len(audio_queue) = AUDIO_QUEUE_MAXSIZE
    /\ pc["recognize"] = "call"

\* C3 as stated: in WhisperRealtimeTranslator the translation engine is invoked at
\* most once for each distinct source text, and what the translator puts for a text
\* is the value the cache holds for it.
C3_EngineInvokedOnce ==
    /\ \A t \in Texts : engine_calls[t] <= 1
    /\ \A p \in served : /\ p[1] \in DOMAIN translation_cache
                          /\ translation_cache[p[1]] = p[2]

\* C3 amended: in WhisperRealtimeTranslator the translation engine answers at most
\* once for each distinct source text, and a text is in translation_cache exactly
\* when it has; once a text is in the cache the engine is not invoked for it again
\* and its entry never changes or disappears; and every translation put for a text
\* is the value stored for it.  A call that raises stores nothing, so the engine is
\* invoked again at the next occurrence of the text.
C3_CacheCorrect ==
    /\ [](\A t \in Texts :
            /\ engine_answers[t] <= 1
            /\ t \in DOMAIN translation_cache <=> engine_answers[t] = 1
            /\ engine_calls[t] <= engine_answers[t] + faults)
    /\ [](\A p \in served : /\ p[1] \in DOMAIN translation_cache
                             /\ translation_cache[p[1]] = p[2])
    /\ [][\A t \in DOMAIN translation_cache :
              /\ engine_calls'[t] = engine_calls[t]
              /\ t \in DOMAIN translation_cache'
              /\ translation_cache'[t] = translation_cache[t]]_vars

\* C3 witness: the same text came twice, the engine was invoked once, and both
\* translations put are the stored one
C3_ServedFromCache ==
    \E t \in Texts :
        /\ engine_calls = [u \in Texts |-> IF u = t THEN 1 ELSE 0]
        /\ t \in DOMAIN translation_cache
        /\ translation_queue = <<translation_cache[t], translation_cache[t]>>

\* a capture tick of WhisperRealtimeTranslator that found samples in audio_buffer
SnapshotStep ==
    /\ impl = "whisper"
    /\ pc["capture"] = "sleep"
    /\ pc'["capture"] = "clear"

\* at a capture tick of WhisperRealtimeTranslator, a chunk whose peak is below 0.01
\* is not put on audio_queue and a chunk whose peak is above 0.01 is
WhisperFilters ==
    SnapshotStep =>
        /\ Peak(audio_buffer) < SILENCE_THRESHOLD => audio_queue' = audio_queue
        /\ Peak(audio_buffer) > SILENCE_THRESHOLD =>
               audio_queue' = Append(audio_queue, audio_buffer)

C5_UpstreamCeases ==
    /\ [](\A w \in Upstream : late_puts[w] <= 1)
    /\ [][\A w \in Upstream :
              pc[w] \in {"done", "cleanup", "killed"} => late_puts'[w] = late_puts[w]]_vars

\* C5 witness: each of the three threads was inside an iteration when the flag was
\* cleared and made its one late put
C5_OneLatePutEach ==
    /\ ~is_running
    /\ \A w \in Upstream : late_puts[w] = 1 /\ pc[w] = "done"

\* C6 as stated: when the speaker thread has terminated, by leaving its loop or
\* with the process after the grace sleep of stop(), every translation that was in
\* translation_queue when stop() cleared the flag has been dequeued by it.
C6_DrainedBeforeTermination ==
    pc["speak"] \in {"done", "killed"} => (~is_running /\ drain.left = 0)

\* C6 amended: the speaker thread leaves its loop only in a state where the flag is
\* false and translation_queue is empty, and by then it has dequeued every
\* translation that was in the queue when stop() cleared the flag.  The process may
\* exit after the grace sleep of stop() while the speaker is still in its loop, and
\* the translations still queued are then never spoken.
C6_DrainBeforeLoopExit ==
    /\ [](pc["speak"] = "done" => (~is_running /\ drain.left = 0))
    /\ [][(pc["speak"] # "done" /\ pc'["speak"] = "done") =>
              (~is_running /\ translation_queue = <<>>)]_vars

\* C6 witness: two translations were queued when stop() cleared the flag, and the
\* speaker has spoken both and left its loop
C6_DrainedTwo ==
    /\ pc["speak"] = "done"
    /\ drain = [queued |-> 2, left |-> 0]
    /\ Len(spoken) = 2

StrictlyIncreasing(s) == \A i, j \in 1..Len(s) : i < j => s[i] < s[j]

\* C7: in RealtimeTranslator the utterances spoken are chunks that were captured
\* and not skipped on a full queue, each spoken at most once and in capture order;
\* the same holds of the texts and of the translations put on the queues.
C7_SpokenInCaptureOrder ==
    impl = "realtime" =>
        /\ StrictlyIncreasing(spoken)
        /\ StrictlyIncreasing(put_trans)
        /\ StrictlyIncreasing(put_text)
        /\ Range(spoken) \subseteq Range(put_trans)
        /\ Range(put_trans) \subseteq Range(put_text)
        /\ Range(put_text) \subseteq (1..chunk_number) \ dropped

\* C7 witness: two chunks were captured while the pipeline ran, and the second was
\* spoken after the first
C7_TwoSpokenInOrder ==
    /\ impl = "realtime"
    /\ is_running
    /\ spoken = <<1, 2>>
    /\ pc["speak"] = "playing"

\* the main thread calls stop() while the flag is already false: a second call, or
\* a call on a pipeline that was never started
StopAgain ==
    /\ ~is_running
    /\ sup \in {"idle", "stopped"}
    /\ sup' = "stopping"

\* C8: stop() can be called again, and on a pipeline that was never started; such a
\* call, and its return after the grace sleep, leave the flag false and change
\* neither the three queues nor the cache.
C8_StopIdempotent ==
    /\ [](sup \in {"idle", "stopped"} => ENABLED stop)
    /\ [][StopAgain => (~is_running' /\ UNCHANGED <<queues, translation_cache>>)]_vars
    /\ [][(sup = "stopping" /\ sup' = "stopped") =>
              UNCHANGED <<is_running, queues, translation_cache>>]_vars

\* C8 witness: stop() was called a second time while a translation was still
\* queued for the speaker
C8_SecondStop ==
    /\ restop
    /\ sup = "stopping"
    /\ translation_queue # <<>>
    /\ pc["speak"] = "wait"

\* C9 as stated: each of the three queues has a fixed finite capacity, 10 for
\* audio_queue and the MAX_QUEUE_SIZE of the configuration for the other two, and
\* never holds more items than that.
C9_QueuesBounded ==
    /\ Len(audio_queue) <= AUDIO_QUEUE_MAXSIZE
    /\ Len(text_queue) <= MAX_QUEUE_SIZE
    /\ Len(translation_queue) <= MAX_QUEUE_SIZE

\* a step of the capture thread
CaptureStep ==
    \/ capture_open
    \/ \E peak \in Levels : capture_tick(peak)
    \/ record_snapshot
    \/ record_clear

\* the recognition thread ends an iteration by putting a text on text_queue
RecognizeStep ==
    /\ \/ \E outcome \in {"ok", "blank", "empty", "raise"} : recognize_call(outcome)
       \/ \E outcome \in {"ok", "raise"}, result \in RawResults :
              transcribe_call(outcome, result)
    /\ Len(text_queue') = Len(text_queue) + 1

\* the translation thread ends an iteration by putting a translation on
\* translation_queue
TranslateStep ==
    /\ \/ \E outcome \in {"ok", "raise"} : translate_call(outcome)
       \/ \E outcome \in {"ok", "raise"}, answer \in Answers :
              cached_translate_call(outcome, answer)
    /\ Len(translation_queue') = Len(translation_queue) + 1

\* C10: while the flag is true the next step of the capture thread can always be
\* taken, whatever the other three threads are doing; and while the speaker waits
\* for playback to finish, the recognition and translation threads can dequeue an
\* item that is waiting for them and can finish the iteration they are in by
\* putting its result on the next queue.
C10_CaptureNeverPaused ==
    /\ [](is_running /\ Alive /\ pc["capture"] \in {"open", "sleep", "clear"}
            => ENABLED CaptureStep)
    /\ []((Alive /\ pc["speak"] = "playing") =>
            /\ (pc["recognize"] = "wait" /\ audio_queue # <<>>) => ENABLED recognize_get
            /\ pc["recognize"] = "call" => ENABLED RecognizeStep
            /\ (pc["translate"] = "wait" /\ text_queue # <<>>) => ENABLED translate_get
            /\ pc["translate"] = "call" => ENABLED TranslateStep)

\* C10 witness: the speaker is playing the first chunk while the recognition thread
\* is working on the second and the capture thread is in its loop
C10_BusyWhilePlaying ==
    /\ is_running
    /\ pc["speak"] = "playing"
    /\ pc["recognize"] = "call"
    /\ pc["translate"] = "wait"
    /\ pc["capture"] = "sleep"

Consumers == {"recognize", "translate", "speak"}

\* an engine call has raised or has returned no text
FaultStep == faults' # faults

\* C11: when an engine call raises for an item (or returns no text), the thread
\* that made the call drops the item and, unless the flag tells it to leave, is
\* back waiting on its queue, from which it can take the next item; nothing is put
\* on any queue, nothing is recorded as passed on or spoken, the cache is as it
\* was, and no other thread and not the main thread has moved.
C11_ErrorsNeverFatal ==
    /\ [][FaultStep =>
            /\ UNCHANGED <<queues, translation_cache, put_text, put_trans, spoken,
                           served, is_running, sup>>
            /\ \E w \in Consumers :
                   /\ pc[w] \in {"call", "synth"}
                   /\ pc'[w] = IF is_running \/ (w = "speak" /\ translation_queue # <<>>)
                               THEN "wait" ELSE "done"
                   /\ hand'[w] = NoItem
                   /\ \A v \in Workers \ {w} : pc'[v] = pc[v] /\ hand'[v] = hand[v]]_vars
    /\ []((Alive /\ pc["recognize"] = "wait" /\ audio_queue # <<>>)
            => ENABLED recognize_get)
    /\ []((Alive /\ pc["translate"] = "wait" /\ text_queue # <<>>)
            => ENABLED translate_get)
    /\ []((Alive /\ pc["speak"] = "wait" /\ translation_queue # <<>>)
            => ENABLED speak_get)

\* C11 witness: the translation engine raised for the first text, and the
\* translation thread went on to translate the second
C11_TranslatedAfterRaise ==
    /\ impl = "realtime"
    /\ is_running
    /\ faults = 1
    /\ put_text = <<1, 2>>
    /\ put_trans = <<2>>

\* C12: stop() waits for nothing but its grace sleep: while the pipeline runs,
\* clearing the flag can be done at once, and once the flag is cleared the return
\* of stop() can be taken whatever the worker threads are doing and whatever the
\* queues hold; the return moves no worker thread and touches no queue.
C12_BoundedShutdown ==
    /\ [](sup = "running" => ENABLED stop)
    /\ [](sup = "stopping" => ENABLED stop_return)
    /\ [][(sup = "stopping" /\ sup' # sup) =>
              (sup' = "stopped" /\ UNCHANGED <<pc, hand, queues>>)]_vars

\* C12 witness: stop() has returned while the recognition thread is still in an
\* engine call and the speaker is still playing
C12_StoppedWhileBusy ==
    /\ sup = "stopped"
    /\ pc["recognize"] = "call"
    /\ pc["speak"] = "playing"

\* the lifecycle of the supervisor: idle -> running -> draining -> stopped, and the
\* process exits once stop() has returned
Forward ==
    {<<"idle", "running">>, <<"running", "stopping">>, <<"stopping", "stopped">>,
     <<"stopped", "exited">>}

\* what start() and stop() allow besides: stop() on a pipeline that is idle or
\* already stopped, and start() after such a stop()
Unguarded ==
    {<<"idle", "stopping">>, <<"stopped", "stopping">>, <<"stopped", "running">>}

\* a worker thread is created
ThreadStarted == \E w \in Workers : pc[w] = "none" /\ pc'[w] # "none"

\* C13 as stated: the main thread only moves forward along idle -> running ->
\* draining -> stopped; the flag is true exactly while it is in running and is not
\* set again once stop() has been called; threads are started only on the move
\* from idle to running.
C13_ForwardOnly ==
    /\ [](is_running <=> sup = "running")
    /\ [][sup' # sup => <<sup, sup'>> \in Forward]_vars
    /\ [][(sup \in {"stopping", "stopped"}) => ~is_running']_vars
    /\ [][ThreadStarted => (sup = "idle" /\ sup' = "running")]_vars

\* C13 amended: the flag is true exactly while the main thread is in running; it
\* becomes true only in start() and false only in stop(); threads are started only
\* by start(), in the step that sets the flag; and the main thread moves forward
\* along idle -> running -> draining -> stopped, except that neither method looks
\* at the state it is called in: stop() on an idle or stopped pipeline enters
\* draining again, and start() after such a stop() sets the flag true again.
C13_Lifecycle ==
    /\ [](is_running <=> sup = "running")
    /\ [][sup' # sup => <<sup, sup'>> \in Forward \cup Unguarded]_vars
    /\ [][(~is_running /\ is_running') => (sup \in {"idle", "stopped"} /\ sup' = "running")]_vars
    /\ [][(is_running /\ ~is_running') => (sup = "running" /\ sup' = "stopping")]_vars
    /\ [][ThreadStarted => (is_running' /\ sup # "running" /\ sup' = "running")]_vars

\* C13 witness: stop() was called on the idle pipeline, start() was called after
\* it, and the pipeline runs with the flag true
C13_StartedAfterStop ==
    /\ restop
    /\ sup = "running"
    /\ is_running
    /\ pc["speak"] = "playing"

\* the capture thread of RealtimeTranslator has left its loop or died
CaptureOver == impl = "realtime" /\ pc["capture"] \in {"cleanup", "done", "killed"}

Returned(w) == pc[w] = "call" /\ pc'[w] \in {"wait", "done"} /\ faults' = faults

TranslationRaised ==
    /\ pc["translate"] = "call"
    /\ pc'["translate"] \in {"wait", "done"}
    /\ faults' # faults

TranslatedUnraised ==
    /\ impl = "whisper"
    /\ pc["translate"] = "call"
    /\ pc'["translate"] \in {"wait", "done"}
    /\ faults' = faults

\* C18: a loop body of WhisperRealtimeTranslator.translate_text that does not raise
\* appends exactly one translated text to translation_queue. If the dequeued text
\* was in the cache, the text appended is the cached one, the engine is not called
\* and the cache is left as it was; otherwise the engine is called once, the text
\* appended is what the engine returned, and the cache then maps the dequeued text
\* to it.
C18_TranslatorStepResult ==
    [][TranslatedUnraised =>
          LET text == hand["translate"]
              n    == Len(translation_queue)
          IN  /\ Len(translation_queue') = n + 1
              /\ SubSeq(translation_queue', 1, n) = translation_queue
              /\ IF text \in DOMAIN translation_cache
                 THEN /\ translation_queue'[n + 1] = translation_cache[text]
                      /\ UNCHANGED <<engine_calls, engine_answers, engine_result,
                                     translation_cache>>
                 ELSE /\ engine_calls' = [engine_calls EXCEPT ![text] = @ + 1]
                      /\ engine_answers' = [engine_answers EXCEPT ![text] = @ + 1]
                      /\ translation_queue'[n + 1] = engine_result'
                      /\ text \in DOMAIN translation_cache'
                      /\ translation_cache'[text] = engine_result']_vars

\* a text was translated by the engine and queued, then dequeued a second time and
\* queued from the cache: both loop bodies have ended and the engine ran once
C18_MissThenHit ==
    /\ impl = "whisper"
    /\ pc["translate"] = "wait"
    /\ \E t \in Texts :
          /\ DOMAIN translation_cache = {t}
          /\ engine_result = translation_cache[t]
          /\ engine_calls[t] = 1 /\ engine_answers[t] = 1
          /\ Len(translation_queue) = 2
          /\ translation_queue[2] = engine_result
          /\ text_queue = <<>>

\* C19: no entry of translation_cache is evicted or overwritten: a text that the
\* cache maps to a value before a step is mapped to the same value after it, so
\* the set of keys only grows.
C19_CacheOnlyGrows ==
    [][\A t \in DOMAIN translation_cache :
          /\ t \in DOMAIN translation_cache'
          /\ translation_cache'[t] = translation_cache[t]]_vars

\* both texts are cached: the entry stored first outlived the store of the second,
\* and the pipeline has since been stopped
C19_TwoEntriesKept ==
    /\ impl = "whisper"
    /\ DOMAIN translation_cache = Texts
    /\ engine_answers = [t \in Texts |-> 1]
    /\ served = {<<t, translation_cache[t]>> : t \in Texts}
    /\ sup = "stopped"

\* a step of the capturer, the transcriber or the synthesizer, or of start() or
\* stop(): one of these threads moves, the caller of start() and stop() moves, or
\* the audio callback writes
OutsideTranslator ==
    \/ \E w \in Workers \ {"translate"} : pc'[w] # pc[w]
    \/ sup' # sup
    \/ is_running' # is_running
    \/ audio_buffer' # audio_buffer
    \/ audio_frames' # audio_frames

\* C20: only the translator thread writes translation_cache: every step of the
\* capturer, the transcriber, the synthesizer, start() and stop() leaves it as it
\* was, and a step that changes it is the end of a translator loop body.
C20_OnlyTranslatorWritesCache ==
    /\ [][OutsideTranslator => UNCHANGED translation_cache]_vars
    /\ [][translation_cache' # translation_cache =>
              /\ pc["translate"] = "call"
              /\ pc'["translate"] \in {"wait", "done"}]_vars

\* a translation was cached, and afterwards the synthesizer spoke it, the pipeline
\* was stopped and every thread left its loop: the entry is still there
C20_CacheSurvivesTheOthers ==
    /\ impl = "whisper"
    /\ sup = "stopped"
    /\ \A w \in Workers : pc[w] = "done"
    /\ translation_queue = <<>>
    /\ \E t \in Texts : DOMAIN translation_cache = {t} /\ served # {}

C22_OnlySupervisorWritesFlag ==
    [][is_running' # is_running =>
          /\ \A w \in Workers : pc'[w] = pc[w] \/ pc[w] = "none"
          /\ \A i \in 1..MaxListeners :
                 listen_pc'[i] = listen_pc[i] \/ listen_pc[i] = "none"]_vars

\* C23 as stated: once the flag is cleared the capture thread leaves its loop and
\* stops and closes the stream and terminates the audio handle before the process
\* exits at the end of the grace period of stop(): when the process has exited,
\* the capture thread has finished its cleanup.
\* Stated for RealtimeTranslator and a capture thread that has opened its stream
\* and captured a chunk.
C23_CaptureClosedBeforeExit ==
    []((impl = "realtime" /\ chunk_number > 0 /\ sup = "exited") =>
           pc["capture"] = "done")

\* the capture thread failed to open the capture device
OpenFailed == pc["capture"] = "failed"

\* C24: when the capture device cannot be opened, the capture thread ends and no
\* chunk is ever enqueued, so that nothing reaches any queue; the failure changes
\* nothing but the position of the capture thread, so the other three threads
\* stay in their loops, idle, for as long as the flag is true; and once stop()
\* has cleared the flag, each of them has left its loop or is free to leave it.
\* (The report of the failure is the traceback that the interpreter prints for
\* the thread; it is no part of the state.)
C24_OpenFailureContained ==
    /\ [](OpenFailed =>
             /\ audio_queue = <<>> /\ text_queue = <<>> /\ translation_queue = <<>>
             /\ chunk_number = 0 /\ audio_frames = 0 /\ audio_buffer = <<>>
             /\ spoken = <<>>)
    /\ [][(~OpenFailed /\ OpenFailed') =>
              /\ \A w \in Consumers : pc'[w] = pc[w]
              /\ UNCHANGED <<sup, is_running, hand, queues, rt_only, w_only, hist>>]_vars
    /\ []((OpenFailed /\ Alive /\ is_running) => \A w \in Consumers : pc[w] = "wait")
    /\ []((OpenFailed /\ Alive /\ ~is_running) =>
             /\ pc["recognize"] = "done" \/ ENABLED recognize_exit
             /\ pc["translate"] = "done" \/ ENABLED translate_exit
             /\ pc["speak"] = "done" \/ ENABLED speak_exit)

\* the device could not be opened, the pipeline was stopped later, and the other
\* three threads have left their loops
C24_StoppedAfterOpenFailure ==
    /\ OpenFailed
    /\ sup = "stopped"
    /\ \A w \in Consumers : pc[w] = "done"

C26_CaptureBufferBounded ==
    /\ impl = "realtime" => audio_frames <= FRAMES_PER_CHUNK
    /\ impl = "whisper" => Len(audio_buffer) <= BufferMaxlen

\* C27 as stated: the snapshot and the clear of record_audio_chunk are atomic: a
\* sample that the callback appends between the two is not removed without having
\* been in a snapshot, so what clear() removes is what the snapshot held.
C27_ClearRemovesTheSnapshot ==
    [][(pc["capture"] = "clear" /\ pc'["capture"] # "clear" /\ Alive') =>
          audio_buffer = audio_chunk]_vars

\* C28 as stated: no translation is stranded at shutdown: in a run in which stop()
\* was called and all four threads have left their loops, translation_queue is
\* empty: what the translator put after the flag was cleared has been dequeued
\* and spoken.
C28_NothingStranded ==
    (\A w \in Workers : pc[w] = "done") => translation_queue = <<>>

\* a thread is past the end of its loop
LoopLeft(position) == position \in {"cleanup", "done"}

Taken(put, q) == put - Len(q)

NoRepeat(s) == \A i, j \in 1..Len(s) : i # j => s[i] # s[j]

\* C30: item conservation in RealtimeTranslator: the texts ever put on text_queue
\* are no more than the chunks ever taken from audio_queue, the translations ever
\* put on translation_queue no more than the texts ever taken from text_queue, the
\* utterances spoken no more than the translations ever taken; an item taken from
\* a queue yields at most one item downstream, so no chunk is transcribed,
\* translated or spoken twice.
C30_ItemConservation ==
    impl = "realtime" =>
        /\ Len(put_text) <= Taken(chunk_number - Cardinality(dropped), audio_queue)
        /\ Len(put_trans) <= Taken(Len(put_text), text_queue)
        /\ Len(spoken) <= Taken(Len(put_trans), translation_queue)
        /\ NoRepeat(put_text) /\ NoRepeat(put_trans) /\ NoRepeat(spoken)
        /\ \A w \in Consumers : pc[w] \in {"wait", "done", "none"} => hand[w] = NoItem

\* two chunks were taken from audio_queue and the recognizer failed on one of them:
\* one text, one translation and one utterance came of the two
C30_FewerDownstream ==
    /\ impl = "realtime"
    /\ chunk_number = 2 /\ dropped = {} /\ audio_queue = <<>>
    /\ faults = 1
    /\ Len(put_text) = 1 /\ Len(put_trans) = 1 /\ Len(spoken) = 1
    /\ pc["recognize"] = "wait" /\ pc["speak"] = "wait"

\* the positions of a listening thread inside its loop
InListenLoop == {"test", "listen", "recognize", "translate", "synth", "playing"}

\* C31 as stated: over any sequence of start_translation and stop_translation, a
\* stop followed at once by a start included, at most one listen_and_translate
\* thread is inside its loop at any time.
C31_AtMostOneListener ==
    Cardinality({i \in 1..MaxListeners : listen_pc[i] \in InListenLoop}) <= 1

\* the capture thread runs the body of its with block and leaves the block
LockedStep == \E peak \in Levels : capture_locked(peak)

\* the sound device has a frame to deliver that the run still has room for
FrameDue ==
    /\ impl = "realtime" /\ Alive /\ is_running
    /\ pc["capture"] \in {"sleep", "cleanup", "locked"}
    /\ audio_frames < limits.frames
    /\ chunk_number + audio_frames < limits.chunks

\* C32: self.lock is never held across a blocking step. Only the capture thread
\* holds it between steps, and while it does, its next step is always possible,
\* a full audio_queue included, and that step releases the lock; so the lock is
\* free again after one step of the capture thread, the callback that waits for
\* it can then run, and the two never wait for each other.
C32_LockNeverHeldAcrossBlocking ==
    /\ [](lock \in {"free", "capture"})
    /\ [](Alive => (lock = "capture" <=> pc["capture"] = "locked"))
    /\ []((lock = "capture" /\ Alive) => ENABLED LockedStep)
    /\ [][(lock = "capture" /\ pc'["capture"] # pc["capture"] /\ Alive') =>
              lock' = "free"]_vars
    /\ []((FrameDue /\ lock = "free") => ENABLED audio_callback)

\* the capture thread skipped a chunk on the full audio_queue while it held the
\* lock, released it, and the callback has appended a frame since
C32_CallbackAfterSkipUnderLock ==
    /\ dropped # {}
    /\ Full(audio_queue, AUDIO_QUEUE_MAXSIZE)
    /\ lock = "free"
    /\ audio_frames > 0
    /\ is_running

\* C33 as stated: the temporary .mp3 file that speak_translation creates for an
\* item is deleted by the time the thread dequeues its next item, also when
\* synthesis, loading or playback raises: whenever the thread is at the head of
\* its loop or has left it, no temporary file exists.
C33_NoTempFileLeft ==
    pc["speak"] \in {"wait", "done"} => temp_files = 0

\* C17 as stated: a chunk for which the recognizer returned the empty text or
\* whitespace only has no text on text_queue: every item of text_queue is a text
\* with something other than whitespace in it.
C17_NoBlankTextQueued ==
    IF impl = "realtime"
    THEN Range(text_queue) \cap blanks = {}
    ELSE \A t \in Range(text_queue) : Strip(t) # <<>>

====
